---- MODULE Spec2Model ----
(***************************************************************************)
(* Model of the two-input promise combinator `all(p1, p2)` of the          *)
(* workshop and of the script statement that uses it:                      *)
(*     all(getPromise1(), getPromise2()).then(console.log);                *)
(* The inputs are ES2015 promises settled by their producers, or values    *)
(* without a usable `then` (undefined, as in a call with missing           *)
(* arguments). Promise callbacks run as jobs of a FIFO job queue, one job  *)
(* per scheduling turn.                                                    *)
(* The module also models parsePromised(process.argv[2]).then(null, ..),   *)
(* with JSON.parse on a JSON subset of numbers and arrays, and the chain   *)
(* of two HTTP reads of 13.js that ends in done().                         *)
(***************************************************************************)
EXTENDS Integers, Sequences, FiniteSets, TLC

\* Bounds of the model: fulfilment values are 1..MaxValue, rejection errors
\* are InputErr(1)..InputErr(MaxError).
MaxValue == 2
MaxError == 2

\* Bound of the model: the command-line argument has at most MaxLen characters.
MaxLen == 3

\* all(p1, p2): the combinator has two parameters.
NumInputs == 2

Inputs == 1..NumInputs
Values == 1..MaxValue
ErrorIds == 1..MaxError

NoReason == <<"none", 0>>
TypeErr == <<"TypeError", 0>>
InputErr(k) == <<"InputError", k>>

VARIABLES
    pc,          \* "start" before the script statement ran, "called" after
    inp,         \* the input handles: [state, val]
    reactions,   \* per input: the reactions registered with then()
    outReactions,\* reactions registered on the output handle
    queue,       \* the promise job queue
    counter,     \* `counter` of the executor's closure
    result,      \* contents of the array `result` of the executor's closure
    out,         \* the promise returned by all(): [state, ref, reason]
    cbRan,       \* per input: how often its fulfilment callback has run
    logged,      \* the arguments console.log was called with
    thrown,      \* exceptions that escaped a call or a job uncaught
    turn,        \* number of turns (synchronous runs to completion) so far
    settleTurn,  \* per input: the turn on which it settled (0: not yet)
    cbTurn,      \* per input: the turn its fulfilment callback ran (0: not yet)
    callTurn,    \* the turn of the call to all() (0: not yet)
    outTurn,     \* the turn on which the output handle settled (0: not yet)
    obsTurn,     \* the turn on which console.log ran (0: not yet)
    settledAtCall, \* the inputs that were already settled when all() was called
    settleOrder, \* the inputs in the order in which they settled
    registered,  \* per input: every reaction all() registered on it with then()
    pp,          \* the parsePromised script: [pc, arg, promise, queue, handlerRuns,
                 \*                            logged, thrown, settles]
    fx           \* the chained fetch script of 13.js: the two reads, the
                 \* promises derived by then(), its job queue and its log

combinatorVars == <<pc, inp, reactions, outReactions, queue, counter, result, out, cbRan,
          logged, thrown, turn, settleTurn, cbTurn, callTurn, outTurn, obsTurn,
          settledAtCall, settleOrder, registered>>

vars == <<combinatorVars, pp, fx>>

PendingOut == [state |-> "pending", ref |-> "none", reason |-> NoReason]

\* The machine state that the promise primitives and the closure act upon.
Machine == [counter |-> counter, result |-> result, out |-> out,
            reactions |-> reactions, outReactions |-> outReactions,
            queue |-> queue, cbRan |-> cbRan, thrown |-> thrown,
            registered |-> registered]

\* ---- the job queue --------------------------------------------------------

EnqueueFront(q, j) == <<j>> \o q

\* Jobs are appended to the queue and taken from its head.
Enqueue(q, j) == Append(q, j)

JobAlwaysFulfil(who, how, val, r) ==
    [who |-> who, how |-> how, val |-> val, handler |-> r.onFul]

\* A reaction job for the reaction r of handle `who` (0: the output handle),
\* which settled as `how` with `val`.
Job(who, how, val, r) ==
    [who |-> who, how |-> how, val |-> val,
     handler |-> IF how = "fulfilled" THEN r.onFul ELSE r.onRej]

RECURSIVE EnqueueAll(_, _, _, _, _)
EnqueueAll(q, who, how, val, rs) ==
    IF rs = <<>> THEN q
    ELSE EnqueueAll(Enqueue(q, Job(who, how, val, Head(rs))), who, how, val, Tail(rs))

\* ---- the output promise's resolving functions -----------------------------

\* fulfill(result): settles the output handle once; it then refers to the
\* array `result` itself. Its reactions are queued as jobs.
Fulfill(m) ==
    IF m.out.state # "pending" THEN m
    ELSE [m EXCEPT !.out = [state |-> "fulfilled", ref |-> "result", reason |-> NoReason],
                   !.queue = EnqueueAll(@, 0, "fulfilled", 0, m.outReactions),
                   !.outReactions = <<>>]

\* reject(e), also what the Promise constructor does when the executor throws.
Reject(m, e) ==
    IF m.out.state # "pending" THEN m
    ELSE [m EXCEPT !.out = [state |-> "rejected", ref |-> "none", reason |-> e],
                   !.queue = EnqueueAll(@, 0, "rejected", 0, m.outReactions),
                   !.outReactions = <<>>]

\* ---- the closure of all() -------------------------------------------------

ShouldFulfillEarly(c) == c >= 1

ShouldFulfillNever(c) == c > NumInputs

\* if(counter>=2)
ShouldFulfill(c) == c >= NumInputs

CallbackByIndex(m, i, res) ==
    LET m1 == [m EXCEPT !.counter = @ + 1,
                        !.result = IF i = 1 THEN <<res>> \o @ ELSE Append(@, res),
                        !.cbRan[i] = @ + 1]
    IN IF ShouldFulfill(m1.counter) THEN Fulfill(m1) ELSE m1

CallbackOverwrite(m, i, res) ==
    LET m1 == [m EXCEPT !.counter = @ + 1,
                        !.result = <<res>>,
                        !.cbRan[i] = @ + 1]
    IN IF ShouldFulfill(m1.counter) THEN Fulfill(m1) ELSE m1

\* (res)=>{ counter++; result.push(res); if(counter>=2) fulfill(result); }
Callback(m, i, res) ==
    LET m1 == [m EXCEPT !.counter = @ + 1,
                        !.result = Append(@, res),
                        !.cbRan[i] = @ + 1]
    IN IF ShouldFulfill(m1.counter) THEN Fulfill(m1) ELSE m1

\* The reaction that p.then(cb) registers: a fulfilment handler and no
\* rejection handler.
CbReaction == [onFul |-> "cb", onRej |-> "undefined"]

ThenOnSettledSync(m, i, p) ==
    IF p.state = "fulfilled" THEN Callback(m, i, p.val) ELSE m

\* then() on a settled promise: the reaction is queued as a job.
ThenOnSettled(m, i, p) ==
    [m EXCEPT !.queue = Enqueue(@, Job(i, p.state, p.val, CbReaction))]

\* p.then(cb) on input i, whose handle is p.
Then(m, i, p) ==
    LET m1 == [m EXCEPT !.registered[i] = Append(@, CbReaction)]
    IN IF p.state = "pending"
       THEN [m1 EXCEPT !.reactions[i] = Append(@, CbReaction)]
       ELSE ThenOnSettled(m1, i, p)

ExecutorThrowEscapes(m, e) == [m EXCEPT !.thrown = Append(@, e)]

\* new Promise(executor): an exception thrown by the executor rejects the
\* new promise.
ExecutorThrow(m, e) == Reject(m, e)

\* The executor of all(): counter = 0, result = [], p1.then(..), p2.then(..).
\* Reading `then` of an input without one throws a TypeError.
Executor(m, ps) ==
    LET m0 == [m EXCEPT !.counter = 0, !.result = <<>>]
    IN IF ps[1].state = "nothen" THEN ExecutorThrow(m0, TypeErr)
       ELSE LET m1 == Then(m0, 1, ps[1])
            IN IF ps[2].state = "nothen" THEN ExecutorThrow(m1, TypeErr)
               ELSE Then(m1, 2, ps[2])

\* The reaction that .then(console.log) registers on the output handle.
LogReaction == [onFul |-> "log", onRej |-> "undefined"]

\* all(..).then(console.log)
ThenLog(m) ==
    IF m.out.state = "pending"
    THEN [m EXCEPT !.outReactions = Append(@, LogReaction)]
    ELSE [m EXCEPT !.queue = Enqueue(@, Job(0, m.out.state, 0, LogReaction))]

\* ---- parsePromised ---------------------------------------------------------

\* The characters of the JSON texts of the model.
Digits == {"0", "1"}
Chars == Digits \cup {"[", "]", ","}

\* process.argv[2] when the script is run without an argument; JSON.parse
\* converts it to the text "undefined", here a single token.
Undefined == <<"undefined">>

\* The command-line arguments: texts of at most MaxLen characters, or none.
Args == UNION {[1..n -> Chars] : n \in 0..MaxLen} \cup {Undefined}

SyntaxErr == <<"SyntaxError", 0>>

Num(n) == [t |-> "num", n |-> n, items |-> <<>>]
Arr(items) == [t |-> "arr", n |-> 0, items |-> items]
ParseFail == [ok |-> FALSE, val |-> Num(0), next |-> 0]

\* Reads the digits of a number from position i on; n is the value so far.
RECURSIVE ParseDigits(_, _, _)
ParseDigits(s, i, n) ==
    IF i <= Len(s) /\ s[i] \in Digits
    THEN ParseDigits(s, i + 1, 10 * n + (IF s[i] = "1" THEN 1 ELSE 0))
    ELSE [ok |-> TRUE, val |-> Num(n), next |-> i]

\* JSON.parse's reading of a value that starts at position i, and of the rest
\* of an array whose elements so far are `items`.
RECURSIVE ParseValue(_, _), ParseItems(_, _, _)
ParseValue(s, i) ==
    IF i > Len(s) THEN ParseFail
    ELSE IF s[i] = "0" THEN [ok |-> TRUE, val |-> Num(0), next |-> i + 1]
    ELSE IF s[i] = "1" THEN ParseDigits(s, i + 1, 1)
    ELSE IF s[i] = "[" THEN
        IF i + 1 <= Len(s) /\ s[i + 1] = "]"
        THEN [ok |-> TRUE, val |-> Arr(<<>>), next |-> i + 2]
        ELSE ParseItems(s, i + 1, <<>>)
    ELSE ParseFail

ParseItems(s, i, items) ==
    LET r == ParseValue(s, i)
    IN IF ~r.ok \/ r.next > Len(s) THEN ParseFail
       ELSE IF s[r.next] = "]"
            THEN [ok |-> TRUE, val |-> Arr(Append(items, r.val)), next |-> r.next + 1]
       ELSE IF s[r.next] = ","
            THEN ParseItems(s, r.next + 1, Append(items, r.val))
       ELSE ParseFail

\* JSON.parse(s): the value, or a SyntaxError when s is not one JSON text.
JSONParse(s) ==
    LET r == ParseValue(s, 1)
    IN IF r.ok /\ r.next = Len(s) + 1
       THEN [ok |-> TRUE, val |-> r.val, err |-> NoReason]
       ELSE [ok |-> FALSE, val |-> Num(0), err |-> SyntaxErr]

PendingP == [state |-> "pending", val |-> Num(0), err |-> NoReason]

\* The reaction that .then(null, handler) registers.
ErrReaction == [onFul |-> "null", onRej |-> "handler"]

\* resolve(res) and reject(error) of the promise: they settle it when it is
\* pending and do nothing otherwise.
ResolveP(s, v) ==
    IF s.promise.state # "pending" THEN s
    ELSE [s EXCEPT !.promise = [state |-> "fulfilled", val |-> v, err |-> NoReason],
                   !.settles = @ + 1]

RejectP(s, e) ==
    IF s.promise.state # "pending" THEN s
    ELSE [s EXCEPT !.promise = [state |-> "rejected", val |-> Num(0), err |-> e],
                   !.settles = @ + 1]

ParseExecutorNoCatch(s) ==
    LET r == JSONParse(s.arg)
    IN IF r.ok THEN ResolveP(s, r.val) ELSE [s EXCEPT !.thrown = Append(@, r.err)]

\* try { res = JSON.parse(jsonentry); resolve(res); } catch (error) { reject(error); }
ParseExecutor(s) ==
    LET r == JSONParse(s.arg)
    IN IF r.ok THEN ResolveP(s, r.val) ELSE RejectP(s, r.err)

\* .then(null, handler) on the returned promise: it is settled by then, so
\* the reaction is queued as a job.
ThenErr(s) ==
    IF s.promise.state = "pending"
    THEN [s EXCEPT !.reactions = Append(@, ErrReaction)]
    ELSE [s EXCEPT !.queue = Enqueue(@, Job(0, s.promise.state, 0, ErrReaction))]

PPIdle == [pc |-> "start", arg |-> <<>>, promise |-> PendingP, reactions |-> <<>>,
           queue |-> <<>>, handlerRuns |-> 0, logged |-> <<>>, thrown |-> <<>>,
           settles |-> 0, turn |-> 0, callTurn |-> 0, handlerTurn |-> 0]

\* parsePromised(process.argv[2]).then(null, (e)=>console.log(e.message)),
\* one synchronous run.
ParseCall ==
    /\ pp.pc = "start"
    /\ pp' = [ThenErr(ParseExecutor(pp)) EXCEPT !.pc = "called",
                                               !.turn = pp.turn + 1,
                                               !.callTurn = pp.turn + 1]
    /\ UNCHANGED <<combinatorVars, fx>>

\* The job at the head of the queue runs: the rejection handler logs the
\* error's message; a fulfilment has no handler to run.
ParseRunJob ==
    /\ pp.queue # <<>>
    /\ LET j == Head(pp.queue)
           ran == j.handler = "handler"
       IN pp' = [pp EXCEPT !.queue = Tail(@),
                           !.turn = @ + 1,
                           !.handlerRuns = IF ran THEN @ + 1 ELSE @,
                           !.handlerTurn = IF ran THEN pp.turn + 1 ELSE @,
                           !.logged = IF ran THEN Append(@, pp.promise.err) ELSE @]
    /\ UNCHANGED <<combinatorVars, fx>>

\* ---- the chained fetch of 13.js ---------------------------------------------

\* The response bodies of the second server: texts of at most MaxLen characters.
Bodies == UNION {[1..n -> Chars] : n \in 0..MaxLen}

NoRead == [state |-> "none", id |-> 0, body |-> <<>>, err |-> NoReason]
PendingRead == [NoRead EXCEPT !.state = "pending"]

FXIdle == [pc |-> "start", read1 |-> NoRead, read2 |-> NoRead,
           p2 |-> NoRead, p3 |-> NoRead, following |-> FALSE,
           requests |-> <<>>, queue |-> <<>>, logged |-> <<>>, uncaught |-> <<>>,
           h1Runs |-> 0, h2Runs |-> 0,
           turn |-> 0, callTurn |-> 0, settle1Turn |-> 0, req2Turn |-> 0,
           settle2Turn |-> 0, h2Turn |-> 0]

\* HTTP.read(url): the request is sent and a pending promise is returned.
Request(port, path) == [port |-> port, path |-> path]

\* HTTP.read("http://localhost:7000").then(..).then(..).done(): the first
\* read is issued and the handlers are registered on pending promises.
FetchStart(s) ==
    [s EXCEPT !.requests = Append(@, Request(7000, 0)),
              !.read1 = PendingRead,
              !.p2 = PendingRead,
              !.p3 = PendingRead]

ResolveDerivedNoFollow(s) ==
    [s EXCEPT !.p2 = [PendingRead EXCEPT !.state = "fulfilled"],
              !.queue = Enqueue(@, "react2")]

\* A handler returned a promise: the promise derived by then() follows it.
ResolveDerived(s) == [s EXCEPT !.following = TRUE]

\* id=> HTTP.read("http://localhost:7001/"+id)
Handler1(s) ==
    ResolveDerived([s EXCEPT !.requests = Append(@, Request(7001, s.read1.id)),
                             !.read2 = PendingRead,
                             !.h1Runs = @ + 1])

\* The reaction of the first then(): the handler runs on a fulfilment; a
\* rejection has no handler and rejects the derived promise.
React1(s) ==
    IF s.read1.state = "fulfilled" THEN Handler1(s)
    ELSE [s EXCEPT !.p2 = s.read1, !.queue = Enqueue(@, "react2")]

\* The derived promise takes over the settlement of the second read.
Follow(s) == [s EXCEPT !.p2 = s.read2, !.queue = Enqueue(@, "react2")]

\* function (json) { console.log(JSON.parse(json)); }: an exception of the
\* handler rejects the promise derived by the second then().
Handler2(s) ==
    LET r == JSONParse(s.p2.body)
    IN IF r.ok
       THEN [s EXCEPT !.logged = Append(@, r.val),
                      !.p3 = [PendingRead EXCEPT !.state = "fulfilled"],
                      !.h2Runs = @ + 1,
                      !.queue = Enqueue(@, "done")]
       ELSE [s EXCEPT !.p3 = [PendingRead EXCEPT !.state = "rejected", !.err = r.err],
                      !.h2Runs = @ + 1,
                      !.queue = Enqueue(@, "done")]

\* The reaction of the second then().
React2(s) ==
    IF s.p2.state = "fulfilled" THEN Handler2(s)
    ELSE [s EXCEPT !.p3 = [PendingRead EXCEPT !.state = "rejected", !.err = s.p2.err],
                   !.queue = Enqueue(@, "done")]

DoneJobSwallow(s) == s

\* .done(): a rejection that reaches the end of the chain is thrown again on
\* a later turn, where nothing catches it.
DoneJob(s) ==
    IF s.p3.state = "rejected" THEN [s EXCEPT !.queue = Enqueue(@, "rethrow")] ELSE s

Rethrow(s) == [s EXCEPT !.uncaught = Append(@, s.p3.err)]

\* The next state of the script after a turn, with the turn's stamps.
FetchStep(s) ==
    /\ fx' = [s EXCEPT !.turn = fx.turn + 1,
                       !.req2Turn = IF Len(s.requests) > Len(fx.requests) /\ fx.requests # <<>>
                                    THEN fx.turn + 1 ELSE @,
                       !.h2Turn = IF s.h2Runs > fx.h2Runs THEN fx.turn + 1 ELSE @]
    /\ UNCHANGED <<combinatorVars, pp>>

\* The script's statement, one synchronous run.
FetchCall ==
    /\ fx.pc = "start"
    /\ FetchStep([FetchStart(fx) EXCEPT !.pc = "called", !.callTurn = fx.turn + 1])

\* The first server answers with an id, or the read fails.
Respond1(ok, v) ==
    /\ fx.read1.state = "pending"
    /\ FetchStep([fx EXCEPT !.read1 = IF ok THEN [PendingRead EXCEPT !.state = "fulfilled", !.id = v]
                                      ELSE [PendingRead EXCEPT !.state = "rejected", !.err = InputErr(v)],
                            !.settle1Turn = fx.turn + 1,
                            !.queue = Enqueue(@, "react1")])

\* The second server answers with a body, or the read fails.
Respond2(o) ==
    /\ fx.read2.state = "pending"
    /\ FetchStep([fx EXCEPT !.read2 = o,
                            !.settle2Turn = fx.turn + 1,
                            !.queue = IF fx.following THEN Enqueue(@, "follow") ELSE @])

\* What the second read can settle as.
Responses2 ==
    {[PendingRead EXCEPT !.state = "fulfilled", !.body = b] : b \in Bodies}
    \cup {[PendingRead EXCEPT !.state = "rejected", !.err = InputErr(k)] : k \in ErrorIds}

\* The job at the head of the script's queue runs.
FetchRunJob ==
    /\ fx.queue # <<>>
    /\ LET j == Head(fx.queue)
           s == [fx EXCEPT !.queue = Tail(@)]
       IN FetchStep(CASE j = "react1" -> React1(s)
                      [] j = "follow" -> Follow(s)
                      [] j = "react2" -> React2(s)
                      [] j = "done" -> DoneJob(s)
                      [] OTHER -> Rethrow(s))

\* ---- the state machine ----------------------------------------------------

Init ==
    /\ pp = PPIdle
    /\ fx = FXIdle
    /\ pc = "start"
    /\ inp \in [Inputs -> {[state |-> "pending", val |-> 0],
                           [state |-> "nothen", val |-> 0]}]
    /\ reactions = [i \in Inputs |-> <<>>]
    /\ outReactions = <<>>
    /\ queue = <<>>
    /\ counter = 0
    /\ result = <<>>
    /\ out = PendingOut
    /\ cbRan = [i \in Inputs |-> 0]
    /\ logged = <<>>
    /\ thrown = <<>>
    /\ turn = 0
    /\ settleTurn = [i \in Inputs |-> 0]
    /\ cbTurn = [i \in Inputs |-> 0]
    /\ callTurn = 0
    /\ outTurn = 0
    /\ obsTurn = 0
    /\ settledAtCall = {}
    /\ settleOrder = <<>>
    /\ registered = [i \in Inputs |-> <<>>]

\* Installs the machine state m as the next state and stamps what happened
\* on this turn.
Install(m) ==
    /\ counter' = m.counter
    /\ result' = m.result
    /\ out' = m.out
    /\ reactions' = m.reactions
    /\ outReactions' = m.outReactions
    /\ queue' = m.queue
    /\ cbRan' = m.cbRan
    /\ thrown' = m.thrown
    /\ registered' = m.registered
    /\ turn' = turn + 1
    /\ outTurn' = IF out.state = "pending" /\ m.out.state # "pending"
                  THEN turn + 1 ELSE outTurn
    /\ cbTurn' = [i \in Inputs |-> IF m.cbRan[i] # cbRan[i] THEN turn + 1 ELSE cbTurn[i]]

\* The script statement: all(p1, p2).then(console.log), one synchronous run.
CallAll ==
    /\ pc = "start"
    /\ pc' = "called"
    /\ Install(ThenLog(Executor(Machine, inp)))
    /\ callTurn' = turn + 1
    /\ settledAtCall' = {i \in Inputs : inp[i].state \in {"fulfilled", "rejected"}}
    /\ UNCHANGED <<inp, logged, settleTurn, obsTurn, settleOrder, pp, fx>>

\* The handle of input i after its producer settled it.
Settled(how, v) == [state |-> how, val |-> v]

\* The producer of input i settles it: the reactions registered on it are
\* queued as jobs, in registration order.
SettleIn(m, i, how, v) ==
    [m EXCEPT !.queue = EnqueueAll(@, i, how, v, m.reactions[i]),
              !.reactions[i] = <<>>]

Outcomes == {Settled("fulfilled", v) : v \in Values}
            \cup {Settled("rejected", k) : k \in ErrorIds}

\* One input settles on a turn of its own.
Settle(i, o) ==
    /\ inp[i].state = "pending"
    /\ inp' = [inp EXCEPT ![i] = o]
    /\ Install(SettleIn(Machine, i, o.state, o.val))
    /\ settleTurn' = [settleTurn EXCEPT ![i] = turn + 1]
    /\ settleOrder' = Append(settleOrder, i)
    /\ UNCHANGED <<pc, logged, callTurn, obsTurn, settledAtCall, pp, fx>>

\* Two inputs settle on the same turn, i before j.
SettleBoth(i, oi, j, oj) ==
    /\ i # j
    /\ inp[i].state = "pending"
    /\ inp[j].state = "pending"
    /\ inp' = [inp EXCEPT ![i] = oi, ![j] = oj]
    /\ Install(SettleIn(SettleIn(Machine, i, oi.state, oi.val), j, oj.state, oj.val))
    /\ settleTurn' = [settleTurn EXCEPT ![i] = turn + 1, ![j] = turn + 1]
    /\ settleOrder' = settleOrder \o <<i, j>>
    /\ UNCHANGED <<pc, logged, callTurn, obsTurn, settledAtCall, pp, fx>>

\* The job at the head of the queue runs: a fulfilment callback of all(),
\* console.log, or a reaction without a handler (which only passes the
\* settlement on to the promise derived by then()).
RunJob ==
    /\ queue # <<>>
    /\ LET j == Head(queue)
           m == [Machine EXCEPT !.queue = Tail(queue)]
       IN /\ Install(IF j.handler = "cb" THEN Callback(m, j.who, j.val) ELSE m)
          /\ logged' = IF j.handler = "log" THEN Append(logged, result) ELSE logged
          /\ obsTurn' = IF j.handler = "log" THEN turn + 1 ELSE obsTurn
    /\ UNCHANGED <<pc, inp, settleTurn, callTurn, settledAtCall, settleOrder, pp, fx>>

Next ==
    \/ CallAll
    \/ \E i \in Inputs, o \in Outcomes : Settle(i, o)
    \/ \E i, j \in Inputs, oi, oj \in Outcomes : SettleBoth(i, oi, j, oj)
    \/ RunJob

Spec == Init /\ [][Next]_vars

\* The state of the combinator's script while another script is run.
CombinatorIdle ==
    /\ pc = "start"
    /\ inp = [i \in Inputs |-> [state |-> "pending", val |-> 0]]
    /\ reactions = [i \in Inputs |-> <<>>]
    /\ outReactions = <<>>
    /\ queue = <<>>
    /\ counter = 0
    /\ result = <<>>
    /\ out = PendingOut
    /\ cbRan = [i \in Inputs |-> 0]
    /\ logged = <<>>
    /\ thrown = <<>>
    /\ turn = 0
    /\ settleTurn = [i \in Inputs |-> 0]
    /\ cbTurn = [i \in Inputs |-> 0]
    /\ callTurn = 0
    /\ outTurn = 0
    /\ obsTurn = 0
    /\ settledAtCall = {}
    /\ settleOrder = <<>>
    /\ registered = [i \in Inputs |-> <<>>]

\* The parsePromised script, run with any argument.
ParseInit ==
    /\ CombinatorIdle
    /\ pp \in {[PPIdle EXCEPT !.arg = a] : a \in Args}
    /\ fx = FXIdle

ParseNext ==
    \/ ParseCall
    \/ ParseRunJob

ParseSpec == ParseInit /\ [][ParseNext]_vars

\* The chained fetch script, with any answers of the two servers.
FetchInit ==
    /\ CombinatorIdle
    /\ pp = PPIdle
    /\ fx = FXIdle

FetchNext ==
    \/ FetchCall
    \/ \E v \in Values : Respond1(TRUE, v)
    \/ \E k \in ErrorIds : Respond1(FALSE, k)
    \/ \E o \in Responses2 : Respond2(o)
    \/ FetchRunJob

FetchSpec == FetchInit /\ [][FetchNext]_vars

\* The script statement is executed and the job queue is drained: a queued job
\* is eventually run.
FairSpec == Spec /\ WF_vars(CallAll) /\ WF_vars(RunJob)

\* ---- derived notions -------------------------------------------------------

\* What an observer of the output handle finds as its fulfilment value.
OutValue == IF out.ref = "result" THEN result ELSE <<>>

IsPromise(i) == inp[i].state # "nothen"
BothPromises == \A i \in Inputs : IsPromise(i)

\* Nothing is left to run.
Quiescent == pc = "called" /\ queue = <<>>

\* The input whose reaction is processed first when both inputs settle:
\* reactions of inputs settled before the call are queued by the call in
\* registration order, the others when their input settles.
FirstProcessed ==
    IF settledAtCall = Inputs THEN 1
    ELSE IF settleOrder # <<>> THEN Head(settleOrder) ELSE 0

AllFulfilled == \A i \in Inputs : inp[i].state = "fulfilled"
AllRejected == \A i \in Inputs : inp[i].state = "rejected"

\* The listeners with a callable fulfilment (rejection) handler that all()
\* registered on input i.
FulListeners(i) == {n \in DOMAIN registered[i] : registered[i][n].onFul # "undefined"}
RejListeners(i) == {n \in DOMAIN registered[i] : registered[i][n].onRej # "undefined"}

\* ---- the claims -------------------------------------------------------------

\* C1: when both inputs fulfil, in whatever order they settle, the output
\* fulfils with slot 0 = value of p1 and slot 1 = value of p2 (input position,
\* not arrival position).
C1_InputOrder ==
    (AllFulfilled /\ out.state = "fulfilled")
        => OutValue = <<inp[1].val, inp[2].val>>

\* C2: when exactly one input rejects with e, then once everything queued has
\* run the output handle is rejected with e, and it is never fulfilled.
C2_SingleRejectionRejects ==
    \A i \in Inputs :
        (BothPromises /\ inp[i].state = "rejected"
            /\ \A j \in Inputs \ {i} : inp[j].state # "rejected")
        => /\ out.state # "fulfilled"
           /\ Quiescent => (out.state = "rejected" /\ out.reason = InputErr(inp[i].val))

\* C3: the output handle is pending, fulfilled or rejected, and once it is
\* fulfilled or rejected its state, its reason and the value it delivers never
\* change again.
C3_SettleOnce ==
    /\ [](out.state \in {"pending", "fulfilled", "rejected"})
    /\ [][out.state # "pending" => (out' = out /\ OutValue' = OutValue)]_vars

\* C3 witness: the output handle is fulfilled and callbacks ran after that.
C3_Witness ==
    /\ out.state = "fulfilled"
    /\ Len(OutValue) = NumInputs
    /\ obsTurn > outTurn

C5_FirstRejectionWins ==
    (BothPromises /\ AllRejected /\ Quiescent)
        => /\ out.state = "rejected"
           /\ out.reason = InputErr(inp[FirstProcessed].val)

\* C6: a call with no inputs (no argument has a usable then) fulfils the
\* output with the empty sequence, on a turn after the call, and never rejects.
C6_EmptyFulfills ==
    ((\A i \in Inputs : ~IsPromise(i)) /\ pc = "called")
        => /\ out.state # "rejected"
           /\ outTurn # callTurn
           /\ Quiescent => (out.state = "fulfilled" /\ OutValue = <<>>)

\* C7: after a call on two promises, all() has registered exactly one fulfilment
\* listener and exactly one rejection listener on each of them.
C7_OneListenerEach ==
    (pc = "called" /\ BothPromises)
        => \A i \in Inputs : /\ Cardinality(FulListeners(i)) = 1
                             /\ Cardinality(RejListeners(i)) = 1

\* C8: whenever the output handle is rejected, its reason is the rejection
\* error of one of the inputs.
C8_OnlyInputErrors ==
    (out.state = "rejected")
        => \E i \in Inputs : /\ inp[i].state = "rejected"
                             /\ out.reason = InputErr(inp[i].val)

\* C9: a fulfilment callback of an input that runs after the output handle has
\* settled changes neither the output handle nor the value it delivers, does
\* not invoke console.log and throws nothing.
C9_InertAfterSettle ==
    [][(out.state # "pending" /\ cbRan' # cbRan)
          => /\ out' = out
             /\ OutValue' = OutValue
             /\ logged' = logged
             /\ thrown' = thrown]_vars

\* C9 witness: the output handle settled and the fulfilment callback of an
\* input ran on a later turn.
C9_Witness ==
    /\ out.state # "pending"
    /\ \E i \in Inputs : cbTurn[i] > outTurn /\ outTurn > 0

\* C10: when both inputs are already fulfilled when all() is called, their
\* callbacks run in registration order and, once everything queued has run, the
\* output is fulfilled with <<v1, v2>>.
C10_BothFulfilledAtCall ==
    (settledAtCall = Inputs /\ AllFulfilled)
        => /\ (cbTurn[2] > 0) => (cbTurn[1] > 0 /\ cbTurn[1] < cbTurn[2])
           /\ (out.state = "fulfilled") => OutValue = <<inp[1].val, inp[2].val>>
           /\ Quiescent => out.state = "fulfilled"

\* C10 witness: both inputs were fulfilled before the call, p2 before p1 and
\* with different values, and the output handle is fulfilled.
C10_Witness ==
    /\ settledAtCall = Inputs
    /\ AllFulfilled
    /\ settleOrder = <<2, 1>>
    /\ inp[1].val # inp[2].val
    /\ out.state = "fulfilled"

\* The inputs in the order in which their fulfilment callbacks ran.
CallbackOrder ==
    IF cbTurn[1] < cbTurn[2] THEN <<1, 2>> ELSE <<2, 1>>

C12_EventuallyFulfilled ==
    (BothPromises /\ AllFulfilled) ~> (out.state = "fulfilled")

\* C12 witness: both inputs fulfilled, one before the call and one after, and
\* the output handle is fulfilled.
C12_Witness ==
    /\ AllFulfilled
    /\ Cardinality(settledAtCall) = 1
    /\ out.state = "fulfilled"

\* C13: a failure while all() registers its listeners does not escape the
\* call: the call returns a handle, rejected with the failure.
C13_RegistrationFailureCaptured ==
    (pc = "called")
        => /\ thrown = <<>>
           /\ ~BothPromises => /\ out.state = "rejected"
                               /\ out.reason = TypeErr
                               /\ outTurn = callTurn

\* C13 witness: p1 is a promise, p2 has no then; the call returned a handle
\* rejected with the TypeError.
C13_Witness ==
    /\ pc = "called"
    /\ IsPromise(1)
    /\ ~IsPromise(2)
    /\ out.state = "rejected"
    /\ Cardinality(FulListeners(1)) = 1

\* C17: counter equals the length of result and is at most 2, each input's
\* callback ran at most once, the output handle is fulfilled exactly when
\* counter is 2, and result only grows at its end.
C17_CounterInvariant ==
    /\ [](/\ counter = Len(result)
          /\ counter <= NumInputs
          /\ \A i \in Inputs : cbRan[i] <= 1
          /\ counter = cbRan[1] + cbRan[2]
          /\ (out.state = "fulfilled") <=> (counter = NumInputs))
    /\ [][/\ Len(result') >= Len(result)
          /\ SubSeq(result', 1, Len(result)) = result]_vars

\* C17 witness: both callbacks ran and result holds two different values.
C17_Witness ==
    /\ counter = NumInputs
    /\ Len(result) = NumInputs
    /\ result[1] # result[2]

\* C18 as stated: slot k of the delivered sequence holds the value of the
\* k-th input to fulfil.
C18_SettlementOrder ==
    (out.state = "fulfilled")
        => OutValue = <<inp[settleOrder[1]].val, inp[settleOrder[2]].val>>

\* C18 amended: slot k holds the value of the input whose fulfilment callback
\* ran k-th; callbacks run in settlement order, except that when both inputs
\* were fulfilled before the call they run in registration order.
C18_CallbackOrder ==
    (out.state = "fulfilled")
        => /\ OutValue = <<inp[CallbackOrder[1]].val, inp[CallbackOrder[2]].val>>
           /\ CallbackOrder = IF settledAtCall = Inputs THEN <<1, 2>> ELSE settleOrder

\* C18 witness: p2 fulfilled before p1, after the call, with different values,
\* and the output delivers p2's value first.
C18_Witness ==
    /\ out.state = "fulfilled"
    /\ settledAtCall = {}
    /\ settleOrder = <<2, 1>>
    /\ inp[1].val # inp[2].val
    /\ OutValue = <<inp[2].val, inp[1].val>>

\* C19: with two promises the output handle is never rejected; when an input
\* rejects, its callback never runs, counter stays below 2 and the output
\* handle stays pending.
C19_RejectionLeavesPending ==
    BothPromises
        => /\ out.state # "rejected"
           /\ \A i \in Inputs :
                 (inp[i].state = "rejected")
                    => (cbRan[i] = 0 /\ counter < NumInputs /\ out.state = "pending")

\* C19 witness: one input rejected, the other fulfilled, everything queued has
\* run and the output handle is pending.
C19_Witness ==
    /\ BothPromises
    /\ Quiescent
    /\ \E i, j \in Inputs : inp[i].state = "rejected" /\ inp[j].state = "fulfilled"
    /\ out.state = "pending"

\* The decimal digits of n.
RECURSIVE DigitsOf(_)
DigitsOf(n) ==
    IF n < 10 THEN <<IF n = 1 THEN "1" ELSE "0">>
    ELSE Append(DigitsOf(n \div 10), IF n % 10 = 1 THEN "1" ELSE "0")

\* The JSON text of a parsed value, without white space.
RECURSIVE Stringify(_), StringifyItems(_)
Stringify(v) ==
    IF v.t = "num" THEN DigitsOf(v.n)
    ELSE <<"[">> \o StringifyItems(v.items) \o <<"]">>

StringifyItems(items) ==
    IF items = <<>> THEN <<>>
    ELSE IF Len(items) = 1 THEN Stringify(items[1])
    ELSE Stringify(items[1]) \o <<",">> \o StringifyItems(Tail(items))

\* The JSON grammar: a number is 0 or starts with a non-zero digit; an array
\* is a bracketed, comma-separated list of values.
IsNumber(s) ==
    /\ Len(s) >= 1
    /\ \A k \in DOMAIN s : s[k] \in Digits
    /\ (s[1] = "0") => (Len(s) = 1)

RECURSIVE IsValue(_), IsElements(_)
IsValue(s) ==
    \/ IsNumber(s)
    \/ /\ Len(s) >= 2
       /\ s[1] = "["
       /\ s[Len(s)] = "]"
       /\ (Len(s) = 2 \/ IsElements(SubSeq(s, 2, Len(s) - 1)))

IsElements(s) ==
    \/ IsValue(s)
    \/ \E k \in 2..(Len(s) - 1) :
          /\ s[k] = ","
          /\ IsValue(SubSeq(s, 1, k - 1))
          /\ IsElements(SubSeq(s, k + 1, Len(s)))

\* C14: the call of parsePromised throws nothing and returns a promise that
\* settled exactly once: fulfilled with the value the text denotes when the
\* argument is a JSON text, rejected with the parser's SyntaxError when it is
\* not. After a rejection the rejection handler runs once, on a later turn;
\* after a fulfilment no handler runs. A settled promise never changes.
C14_ParsePromised ==
    /\ [](pp.pc = "called"
            => /\ pp.thrown = <<>>
               /\ pp.settles = 1
               /\ IF IsValue(pp.arg)
                  THEN /\ pp.promise.state = "fulfilled"
                       /\ Stringify(pp.promise.val) = pp.arg
                       /\ pp.handlerRuns = 0
                       /\ pp.logged = <<>>
                  ELSE /\ pp.promise.state = "rejected"
                       /\ pp.promise.err = SyntaxErr
                       /\ pp.handlerRuns <= 1
                       /\ (pp.queue = <<>>) => /\ pp.handlerRuns = 1
                                               /\ pp.logged = <<SyntaxErr>>
                                               /\ pp.handlerTurn > pp.callTurn)
    /\ [][pp.promise.state # "pending" => pp.promise' = pp.promise]_vars

\* C14 witness: the argument is a malformed array text, the promise is
\* rejected and the rejection handler has run once.
C14_Witness ==
    /\ pp.pc = "called"
    /\ Len(pp.arg) = MaxLen
    /\ pp.arg[1] = "["
    /\ pp.promise.state = "rejected"
    /\ pp.handlerRuns = 1

\* Nothing of the fetch script is left to run.
FetchQuiescent == fx.pc = "called" /\ fx.queue = <<>>

\* C15: the second read is issued only after the first has fulfilled, on a
\* later turn and for the id it returned; JSON.parse and console.log run only
\* after the second read has fulfilled, on a later turn and on its body.
C15_Sequential ==
    /\ (Len(fx.requests) >= 1) => (fx.requests[1] = Request(7000, 0) /\ fx.callTurn > 0)
    /\ (Len(fx.requests) >= 2)
          => /\ Len(fx.requests) = 2
             /\ fx.read1.state = "fulfilled"
             /\ fx.requests[2] = Request(7001, fx.read1.id)
             /\ fx.callTurn < fx.settle1Turn
             /\ fx.settle1Turn < fx.req2Turn
    /\ (fx.read2.state # "none") => (Len(fx.requests) = 2)
    /\ (fx.h2Runs > 0)
          => /\ fx.h2Runs = 1
             /\ fx.read2.state = "fulfilled"
             /\ fx.p2.body = fx.read2.body
             /\ fx.req2Turn < fx.settle2Turn
             /\ fx.settle2Turn < fx.h2Turn
    /\ (fx.logged # <<>>)
          => /\ fx.h2Runs = 1
             /\ Len(fx.logged) = 1
             /\ Stringify(fx.logged[1]) = fx.read2.body

\* C15 witness: both reads fulfilled and the parsed array was logged.
C15_Witness ==
    /\ fx.read1.state = "fulfilled"
    /\ fx.read2.state = "fulfilled"
    /\ Len(fx.logged) = 1
    /\ fx.logged[1].t = "arr"
    /\ fx.requests[2].path = MaxValue

\* The failure of the chain, if a step has failed.
FetchFailure ==
    IF fx.read1.state = "rejected" THEN fx.read1.err
    ELSE IF fx.read2.state = "rejected" THEN fx.read2.err
    ELSE IF fx.h2Runs > 0 /\ ~IsValue(fx.read2.body) THEN SyntaxErr
    ELSE NoReason

\* C16: when a step fails the later fulfilment handlers do not run (no second
\* request after a failed first read, no log after a failed second read or a
\* failed parse), and once everything queued has run the error has been thrown
\* uncaught by done(), once; without a failure nothing is thrown.
C16_FailureReachesDone ==
    /\ (fx.read1.state = "rejected")
          => (Len(fx.requests) = 1 /\ fx.h1Runs = 0 /\ fx.h2Runs = 0 /\ fx.logged = <<>>)
    /\ (fx.read2.state = "rejected") => (fx.h2Runs = 0 /\ fx.logged = <<>>)
    /\ (FetchFailure = SyntaxErr) => (fx.logged = <<>>)
    /\ (FetchFailure # NoReason /\ FetchQuiescent) => (fx.uncaught = <<FetchFailure>>)
    /\ (fx.uncaught # <<>>) => (fx.uncaught = <<FetchFailure>>)

\* C16 witness: the second read was rejected and its error was thrown by
\* done(); the first read had fulfilled.
C16_Witness ==
    /\ fx.read1.state = "fulfilled"
    /\ fx.read2.state = "rejected"
    /\ fx.uncaught = <<fx.read2.err>>
    /\ FetchQuiescent

====
